---- MODULE Spec2Model ----
(***************************************************************************)
(* Master coordination core of the multi-node MPPT system                  *)
(* (src/src/master_controller.cpp) together with the fault-compensation    *)
(* pass of src/src/main.cpp, integrated into loop() the way                *)
(* src/INTEGRATION_GUIDE.md (Step 4) prescribes.                           *)
(*                                                                         *)
(* Fixed-point units (the code uses float):                                *)
(*   voltages   1/20 V  (12.0 V = 240, 0.05 V = 1)                         *)
(*   currents   1/10 A  (35.0 A = 350)                                     *)
(*   powers     1/10 W  (0.1 W = 1)                                        *)
(*   efficiency whole percent, rounded down (only compared with 80.0)      *)
(*   time       milliseconds, advancing on a grid of TickMs                *)
(*                                                                         *)
(* Two threads of control exist: loop() (the Arduino loop task) and the    *)
(* ESP-NOW receive callback on_data_receive (the Wi-Fi task).  Nothing in  *)
(* the code synchronises them, so the callback's steps interleave with the *)
(* functions loop() calls.  The duty_cycle_percent, efficiency and         *)
(* timestamp fields of a status message are stored but never read by the   *)
(* control path; they are left out of the message records, except that     *)
(* SpecLink keeps the timestamp.                                           *)
(*                                                                         *)
(* Spec is the master from power-up with a few status messages; SpecRace   *)
(* has more, nominal-only traffic; SpecCycle is one pass of loop() over a  *)
(* node table and setpoint as earlier passes leave them, without traffic;  *)
(* SpecLink is the master from power-up with arbitrary frames on the       *)
(* radio, the callback overlapping the aggregation, and the clock running  *)
(* on after the emergency stop; SpecPasses is an endless run of passes     *)
(* with every node reporting.  SpecLinkFair and SpecPassesFair add the     *)
(* scheduling of the loop task, the callback and the clock.                *)
(***************************************************************************)
EXTENDS Integers, Sequences, FiniteSets, TLC

\* ---------------------------------------------------------------- bounds
MaxTime == 8000
MaxMsgs == 3
MaxRaceMsgs == 5

\* ------------------------------------------------------ program constants
NUM_NODES == 4
TARGET_SYSTEM_VOLTAGE == 960
TARGET_NODE_VOLTAGE == TARGET_SYSTEM_VOLTAGE \div NUM_NODES
VOLTAGE_RAMP_STEP == 2
VOLTAGE_RAMP_INTERVAL == 2000
MIN_SYSTEM_VOLTAGE == 720
MAX_SYSTEM_VOLTAGE == 1200
VOLTAGE_BALANCE_TOLERANCE == 20
NODE_TIMEOUT == 5000
OVERVOLTAGE_THRESHOLD == 280
OVERCURRENT_THRESHOLD == 350
EFFICIENCY_WARNING == 80
STATUS_REPORT_INTERVAL == 1000
COMMAND_BROADCAST_INTERVAL == 2000
SETUP_DELAY == 2000
BROADCAST_ID == 255

FAULT_NONE == 0
FAULT_NODE_OFFLINE == 1
FAULT_OVERVOLTAGE_NODE == 2
FAULT_OVERCURRENT_SYSTEM == 4
FAULT_LOW_EFFICIENCY == 8
FAULT_VOLTAGE_IMBALANCE == 16
FAULT_SHADING_DETECTED == 32

FAULT_MIN_POWER_DETECTION == 10
FAULT_VOLTAGE_COLLAPSE == 100
FAULT_CURRENT_COLLAPSE == 5
MIN_NODES_FOR_COMPENSATION == 2
MAX_COMPENSATION_VOLTAGE == 320
COMPENSATION_CHECK_INTERVAL == 2000

\* the time grid: the smallest interval the program uses
TickMs == STATUS_REPORT_INTERVAL

Nodes == 1..NUM_NODES

\* ------------------------------------------------------------ data types
\* NodeStatus_t of a zero-initialised global
ZeroStatus ==
  [input_voltage |-> 0, input_current |-> 0, input_power |-> 0,
   output_voltage |-> 0, output_current |-> 0, output_power |-> 0,
   status |-> 0]

\* 12 V / 8 A / 96 W in and out, status normal
Nominal ==
  [input_voltage |-> 240, input_current |-> 80, input_power |-> 960,
   output_voltage |-> 240, output_current |-> 80, output_power |-> 960,
   status |-> 0]

\* panel gone: 0.0 W, 0.2 V, hard-fault status
Dead ==
  [input_voltage |-> 4, input_current |-> 0, input_power |-> 0,
   output_voltage |-> 0, output_current |-> 0, output_power |-> 0,
   status |-> 255]

\* output at 14.5 V, status overvoltage
OverVolt ==
  [input_voltage |-> 240, input_current |-> 80, input_power |-> 960,
   output_voltage |-> 290, output_current |-> 80, output_power |-> 960,
   status |-> 2]

\* converter delivering 1 W of 96 W
Lossy ==
  [input_voltage |-> 240, input_current |-> 80, input_power |-> 960,
   output_voltage |-> 240, output_current |-> 80, output_power |-> 10,
   status |-> 0]

\* partly shaded panel: 10 V / 3 A in, status shading
Shaded ==
  [input_voltage |-> 200, input_current |-> 30, input_power |-> 300,
   output_voltage |-> 230, output_current |-> 12, output_power |-> 276,
   status |-> 1]

\* 36 A in the series chain, status overcurrent
OverCur ==
  [input_voltage |-> 240, input_current |-> 375, input_power |-> 9000,
   output_voltage |-> 240, output_current |-> 360, output_power |-> 8640,
   status |-> 3]

\* panel voltage exactly at the 5.0 V collapse floor, still delivering 40 W
Marginal ==
  [input_voltage |-> FAULT_VOLTAGE_COLLAPSE, input_current |-> 80,
   input_power |-> 400,
   output_voltage |-> 240, output_current |-> 16, output_power |-> 384,
   status |-> 0]

\* dusk: 0.1 W in, 0.1 W out
Dusk ==
  [input_voltage |-> 120, input_current |-> 0, input_power |-> 1,
   output_voltage |-> 240, output_current |-> 0, output_power |-> 1,
   status |-> 0]

\* the status messages node i is let to send
StatusMsgs(i) ==
  CASE i = 1 -> {Nominal}
    [] i = 2 -> {Nominal, Lossy}
    [] i = 3 -> {Nominal, Dead}
    [] OTHER -> {Nominal, OverVolt}

\* the latest status of node i when one control cycle is looked at on its own
CycleMsgs(i) ==
  CASE i = 1 -> {Nominal, Lossy, Dusk}
    [] i = 2 -> {Nominal, Marginal, Shaded}
    [] i = 3 -> {Nominal, Dead}
    [] OTHER -> {Nominal, OverVolt, OverCur}

VARIABLES
  now,                          \* millis()
  node_status,                  \* NodeStatus_t node_status[1..NUM_NODES]
  node_tracker,                 \* NodeTracker_t node_tracker[1..NUM_NODES]
  system_state,                 \* SystemState_t
  current_command,              \* MasterCommand_t
  last_broadcast_time,
  last_voltage_adjustment_time,
  last_fault_check_time,
  has_received_any_status,
  global_fault_state,
  voltage_setpoint,
  emergency_shutdown,
  pc,                           \* position of loop(): idle, opt, detect, handle, halted
  rx,                           \* node id whose on_data_receive is in progress, 0 if none
  msgs,                         \* status messages delivered so far
  sent,                         \* commands handed to esp_now_send by the latest step
  event                         \* what the latest step printed on Serial

vars == <<now, node_status, node_tracker, system_state, current_command,
          last_broadcast_time, last_voltage_adjustment_time,
          last_fault_check_time, has_received_any_status, global_fault_state,
          voltage_setpoint, emergency_shutdown, pc, rx, msgs, sent, event>>

\* ------------------------------------------------------------- helpers
Min2(a, b) == IF a < b THEN a ELSE b
Max2(a, b) == IF a > b THEN a ELSE b
constrain(x, lo, hi) == IF x < lo THEN lo ELSE IF x > hi THEN hi ELSE x
HasBit(mask, bit) == (mask \div bit) % 2 = 1

\* ------------------------------------------------------------- setup()
InitTracker ==
  [i \in Nodes |->
     [last_update |-> 0, is_online |-> FALSE,
      voltage_setpoint |-> TARGET_NODE_VOLTAGE,
      consecutive_errors |-> 0, last_status |-> 0]]

InitSystemState ==
  [total_input_power |-> 0, total_output_power |-> 0,
   total_output_current |-> 0, system_voltage |-> 0,
   system_efficiency |-> 0, num_nodes_online |-> 0,
   num_shaded_nodes |-> 0, has_fault |-> FALSE, fault_code |-> 0]

InitCommand ==
  [node_id |-> BROADCAST_ID, target_voltage |-> TARGET_NODE_VOLTAGE,
   max_current |-> OVERCURRENT_THRESHOLD, command |-> 0]

Init ==
  /\ now = SETUP_DELAY
  /\ node_status = [i \in Nodes |-> ZeroStatus]
  /\ node_tracker = InitTracker
  /\ system_state = InitSystemState
  /\ current_command = InitCommand
  /\ last_broadcast_time = 0
  /\ last_voltage_adjustment_time = 0
  /\ last_fault_check_time = 0
  /\ has_received_any_status = FALSE
  /\ global_fault_state = FAULT_NONE
  /\ voltage_setpoint = TARGET_NODE_VOLTAGE
  /\ emergency_shutdown = FALSE
  /\ pc = "idle"
  /\ rx = 0
  /\ msgs = 0
  /\ sent = <<>>
  /\ event = "none"

\* ------------------------------------------- broadcast_command_to_nodes()
\* the command as it stands after the call; the same bytes go to esp_now_send
broadcast_command_to_nodes(cmd, setpoint, emergency) ==
  [node_id |-> BROADCAST_ID,
   target_voltage |-> setpoint,
   max_current |-> OVERCURRENT_THRESHOLD,
   command |-> IF emergency THEN 1 ELSE cmd.command]

\* ----------------------------------------------- calculate_system_state()
\* variant: the series current is added up like the powers
RECURSIVE CalcLoopSummingCurrent(_, _, _, _, _)
CalcLoopSummingCurrent(i, ss, nt, ns, t) ==
  IF i > NUM_NODES THEN [ss |-> ss, nt |-> nt]
  ELSE IF t - nt[i].last_update < NODE_TIMEOUT
       THEN CalcLoopSummingCurrent(i + 1,
              [ss EXCEPT
                 !.num_nodes_online = @ + 1,
                 !.total_input_power = @ + ns[i].input_power,
                 !.total_output_power = @ + ns[i].output_power,
                 !.total_output_current = @ + ns[i].output_current,
                 !.system_voltage = @ + ns[i].output_voltage,
                 !.num_shaded_nodes = IF ns[i].status = 1 THEN @ + 1 ELSE @],
              [nt EXCEPT ![i].is_online = TRUE], ns, t)
       ELSE CalcLoopSummingCurrent(i + 1, ss,
              [nt EXCEPT ![i].is_online = FALSE], ns, t)

RECURSIVE CalcLoop(_, _, _, _, _)
CalcLoop(i, ss, nt, ns, t) ==
  IF i > NUM_NODES THEN [ss |-> ss, nt |-> nt]
  ELSE IF t - nt[i].last_update < NODE_TIMEOUT
       THEN CalcLoop(i + 1,
              [ss EXCEPT
                 !.num_nodes_online = @ + 1,
                 !.total_input_power = @ + ns[i].input_power,
                 !.total_output_power = @ + ns[i].output_power,
                 !.total_output_current = ns[i].output_current,
                 !.system_voltage = @ + ns[i].output_voltage,
                 !.num_shaded_nodes = IF ns[i].status = 1 THEN @ + 1 ELSE @],
              [nt EXCEPT ![i].is_online = TRUE], ns, t)
       ELSE CalcLoop(i + 1, ss, [nt EXCEPT ![i].is_online = FALSE], ns, t)

\* variant: liveness taken from the stored is_online flag, not from the clock
RECURSIVE CalcLoopByFlag(_, _, _, _, _)
CalcLoopByFlag(i, ss, nt, ns, t) ==
  IF i > NUM_NODES THEN [ss |-> ss, nt |-> nt]
  ELSE IF nt[i].is_online
       THEN CalcLoopByFlag(i + 1,
              [ss EXCEPT
                 !.num_nodes_online = @ + 1,
                 !.total_input_power = @ + ns[i].input_power,
                 !.total_output_power = @ + ns[i].output_power,
                 !.total_output_current = ns[i].output_current,
                 !.system_voltage = @ + ns[i].output_voltage,
                 !.num_shaded_nodes = IF ns[i].status = 1 THEN @ + 1 ELSE @],
              nt, ns, t)
       ELSE CalcLoopByFlag(i + 1, ss, nt, ns, t)

calculate_by_online_flag(ss, nt, ns, t) ==
  LET zeroed == [ss EXCEPT !.total_input_power = 0, !.total_output_power = 0,
                           !.total_output_current = 0, !.system_voltage = 0,
                           !.num_nodes_online = 0, !.num_shaded_nodes = 0,
                           !.has_fault = FALSE]
      r == CalcLoopByFlag(1, zeroed, nt, ns, t)
      eff == IF r.ss.total_input_power > 1
             THEN (r.ss.total_output_power * 100) \div r.ss.total_input_power
             ELSE 0
  IN [ss |-> [r.ss EXCEPT !.system_efficiency = eff], nt |-> r.nt]

\* variant: the ratio is taken whenever any input power is reported
calculate_without_noise_floor(ss, nt, ns, t) ==
  LET zeroed == [ss EXCEPT !.total_input_power = 0, !.total_output_power = 0,
                           !.total_output_current = 0, !.system_voltage = 0,
                           !.num_nodes_online = 0, !.num_shaded_nodes = 0,
                           !.has_fault = FALSE]
      r == CalcLoop(1, zeroed, nt, ns, t)
      eff == IF r.ss.total_input_power > 0
             THEN (r.ss.total_output_power * 100) \div r.ss.total_input_power
             ELSE 0
  IN [ss |-> [r.ss EXCEPT !.system_efficiency = eff], nt |-> r.nt]

calculate_system_state(ss, nt, ns, t) ==
  LET zeroed == [ss EXCEPT !.total_input_power = 0, !.total_output_power = 0,
                           !.total_output_current = 0, !.system_voltage = 0,
                           !.num_nodes_online = 0, !.num_shaded_nodes = 0,
                           !.has_fault = FALSE]
      r == CalcLoop(1, zeroed, nt, ns, t)
      eff == IF r.ss.total_input_power > 1
             THEN (r.ss.total_output_power * 100) \div r.ss.total_input_power
             ELSE 0
  IN [ss |-> [r.ss EXCEPT !.system_efficiency = eff], nt |-> r.nt]

\* -------------------------------- max/min scan over the online nodes
RECURSIVE MaxScan(_, _, _, _)
MaxScan(i, acc, nt, ns) ==
  IF i > NUM_NODES THEN acc
  ELSE MaxScan(i + 1,
               IF nt[i].is_online THEN Max2(acc, ns[i].output_voltage) ELSE acc,
               nt, ns)

RECURSIVE MinScan(_, _, _, _)
MinScan(i, acc, nt, ns) ==
  IF i > NUM_NODES THEN acc
  ELSE MinScan(i + 1,
               IF nt[i].is_online THEN Min2(acc, ns[i].output_voltage) ELSE acc,
               nt, ns)

\* max_node_voltage - min_node_voltage with the code's start values 0.0 / 100.0
ScanSpread(nt, ns) == MaxScan(1, 0, nt, ns) - MinScan(1, 2000, nt, ns)

\* --------------------------------------------- optimize_voltage_setpoint()
\* variant: the rules are applied however few nodes are online
optimize_without_guard(sp, ss, nt, ns) ==
  IF ScanSpread(nt, ns) > VOLTAGE_BALANCE_TOLERANCE
  THEN (IF sp > MIN_SYSTEM_VOLTAGE \div NUM_NODES
        THEN sp - VOLTAGE_RAMP_STEP \div 2 ELSE sp)
  ELSE IF ss.system_efficiency < EFFICIENCY_WARNING
          /\ sp > MIN_SYSTEM_VOLTAGE \div NUM_NODES
  THEN sp - VOLTAGE_RAMP_STEP
  ELSE LET system_voltage_target == sp * NUM_NODES
           stepped == IF system_voltage_target < MAX_SYSTEM_VOLTAGE - 40
                      THEN sp + VOLTAGE_RAMP_STEP
                      ELSE IF system_voltage_target > MAX_SYSTEM_VOLTAGE
                           THEN sp - VOLTAGE_RAMP_STEP
                           ELSE sp
       IN constrain(stepped, MIN_SYSTEM_VOLTAGE \div NUM_NODES,
                             MAX_SYSTEM_VOLTAGE \div NUM_NODES)

\* variant: the balance rule is missing
optimize_without_balance(sp, ss, nt, ns) ==
  IF ss.num_nodes_online < 2 THEN sp
  ELSE IF ss.system_efficiency < EFFICIENCY_WARNING
          /\ sp > MIN_SYSTEM_VOLTAGE \div NUM_NODES
  THEN sp - VOLTAGE_RAMP_STEP
  ELSE LET system_voltage_target == sp * NUM_NODES
           stepped == IF system_voltage_target < MAX_SYSTEM_VOLTAGE - 40
                      THEN sp + VOLTAGE_RAMP_STEP
                      ELSE IF system_voltage_target > MAX_SYSTEM_VOLTAGE
                           THEN sp - VOLTAGE_RAMP_STEP
                           ELSE sp
       IN constrain(stepped, MIN_SYSTEM_VOLTAGE \div NUM_NODES,
                             MAX_SYSTEM_VOLTAGE \div NUM_NODES)

optimize_voltage_setpoint(sp, ss, nt, ns) ==
  IF ss.num_nodes_online < 2 THEN sp
  ELSE IF ScanSpread(nt, ns) > VOLTAGE_BALANCE_TOLERANCE
  THEN (IF sp > MIN_SYSTEM_VOLTAGE \div NUM_NODES
        THEN sp - VOLTAGE_RAMP_STEP \div 2 ELSE sp)
  ELSE IF ss.system_efficiency < EFFICIENCY_WARNING
          /\ sp > MIN_SYSTEM_VOLTAGE \div NUM_NODES
  THEN sp - VOLTAGE_RAMP_STEP
  ELSE LET system_voltage_target == sp * NUM_NODES
           stepped == IF system_voltage_target < MAX_SYSTEM_VOLTAGE - 40
                      THEN sp + VOLTAGE_RAMP_STEP
                      ELSE IF system_voltage_target > MAX_SYSTEM_VOLTAGE
                           THEN sp - VOLTAGE_RAMP_STEP
                           ELSE sp
       IN constrain(stepped, MIN_SYSTEM_VOLTAGE \div NUM_NODES,
                             MAX_SYSTEM_VOLTAGE \div NUM_NODES)

\* ------------------------------------------------------- detect_faults()
\* variant: the checks form an else-if chain, the first hit ends the scan
detect_faults_first_only(ss, nt, ns) ==
  IF \E i \in Nodes : ~nt[i].is_online THEN FAULT_NODE_OFFLINE
  ELSE IF \E i \in Nodes : nt[i].is_online
               /\ ns[i].output_voltage > OVERVOLTAGE_THRESHOLD
  THEN FAULT_OVERVOLTAGE_NODE
  ELSE IF ss.total_output_current > OVERCURRENT_THRESHOLD
  THEN FAULT_OVERCURRENT_SYSTEM
  ELSE IF ss.system_efficiency < EFFICIENCY_WARNING
            /\ ss.total_input_power > 100
  THEN FAULT_LOW_EFFICIENCY
  ELSE IF ScanSpread(nt, ns) > VOLTAGE_BALANCE_TOLERANCE
  THEN FAULT_VOLTAGE_IMBALANCE
  ELSE IF ss.num_shaded_nodes > 0 THEN FAULT_SHADING_DETECTED
  ELSE FAULT_NONE

detect_faults(ss, nt, ns) ==
  LET b1 == IF \E i \in Nodes : ~nt[i].is_online
            THEN FAULT_NODE_OFFLINE ELSE 0
      b2 == IF \E i \in Nodes : nt[i].is_online
                  /\ ns[i].output_voltage > OVERVOLTAGE_THRESHOLD
            THEN FAULT_OVERVOLTAGE_NODE ELSE 0
      b3 == IF ss.total_output_current > OVERCURRENT_THRESHOLD
            THEN FAULT_OVERCURRENT_SYSTEM ELSE 0
      b4 == IF ss.system_efficiency < EFFICIENCY_WARNING
                  /\ ss.total_input_power > 100
            THEN FAULT_LOW_EFFICIENCY ELSE 0
      b5 == IF ScanSpread(nt, ns) > VOLTAGE_BALANCE_TOLERANCE
            THEN FAULT_VOLTAGE_IMBALANCE ELSE 0
      b6 == IF ss.num_shaded_nodes > 0
            THEN FAULT_SHADING_DETECTED ELSE 0
  IN b1 + b2 + b3 + b4 + b5 + b6


\* ------------------------------------------------------ emergency_stop()
\* variant: the function returns to its caller instead of spinning
emergency_stop_returns(cmd, ev) ==
  LET c == broadcast_command_to_nodes([cmd EXCEPT !.command = 1], 0, TRUE)
  IN [voltage_setpoint |-> 0, current_command |-> c,
      emergency_shutdown |-> TRUE, sent |-> <<c>>, pc |-> "idle",
      event |-> ev]

\* variant: the shutdown command is prepared but never broadcast
emergency_stop_silent(cmd, ev) ==
  [voltage_setpoint |-> 0, current_command |-> [cmd EXCEPT !.command = 1],
   emergency_shutdown |-> TRUE, sent |-> <<>>, pc |-> "halted",
   event |-> ev]

\* the function never returns (while (1)): loop() stays inside it
emergency_stop(cmd, ev) ==
  LET c == broadcast_command_to_nodes([cmd EXCEPT !.command = 1], 0, TRUE)
  IN [voltage_setpoint |-> 0, current_command |-> c,
      emergency_shutdown |-> TRUE, sent |-> <<c>>, pc |-> "halted",
      event |-> ev]

\* ------------------------------------------------------- handle_faults()
\* variant: overcurrent is answered with the two steps of overvoltage
handle_faults_two_steps_each(gfs, ss, sp, cmd, es) ==
  IF gfs = FAULT_NONE
  THEN [voltage_setpoint |-> sp, current_command |-> cmd,
        emergency_shutdown |-> es, sent |-> <<>>, pc |-> "idle",
        event |-> "none"]
  ELSE IF HasBit(gfs, FAULT_NODE_OFFLINE) /\ ss.num_nodes_online = 0
  THEN emergency_stop(cmd, "FAULT_ALL_OFFLINE")
  ELSE LET sp1 == IF HasBit(gfs, FAULT_OVERVOLTAGE_NODE)
                  THEN sp - VOLTAGE_RAMP_STEP * 2 ELSE sp
           sp2 == IF HasBit(gfs, FAULT_OVERCURRENT_SYSTEM)
                  THEN sp1 - VOLTAGE_RAMP_STEP * 2 ELSE sp1
       IN [voltage_setpoint |-> sp2, current_command |-> cmd,
           emergency_shutdown |-> es, sent |-> <<>>, pc |-> "idle",
           event |-> "FAULT"]

handle_faults(gfs, ss, sp, cmd, es) ==
  IF gfs = FAULT_NONE
  THEN [voltage_setpoint |-> sp, current_command |-> cmd,
        emergency_shutdown |-> es, sent |-> <<>>, pc |-> "idle",
        event |-> "none"]
  ELSE IF HasBit(gfs, FAULT_NODE_OFFLINE) /\ ss.num_nodes_online = 0
  THEN emergency_stop(cmd, "FAULT_ALL_OFFLINE")
  ELSE LET sp1 == IF HasBit(gfs, FAULT_OVERVOLTAGE_NODE)
                  THEN sp - VOLTAGE_RAMP_STEP * 2 ELSE sp
           sp2 == IF HasBit(gfs, FAULT_OVERCURRENT_SYSTEM)
                  THEN sp1 - VOLTAGE_RAMP_STEP ELSE sp1
       IN [voltage_setpoint |-> sp2, current_command |-> cmd,
           emergency_shutdown |-> es, sent |-> <<>>, pc |-> "idle",
           event |-> "FAULT"]

\* ------------------------------------------------ detect_node_failures()
detect_node_failures(nt, ns) ==
  [i \in Nodes |->
     IF ~nt[i].is_online THEN nt[i]
     ELSE IF \/ ns[i].input_power < FAULT_MIN_POWER_DETECTION
             \/ ns[i].input_voltage < FAULT_VOLTAGE_COLLAPSE
             \/ ns[i].input_current < FAULT_CURRENT_COLLAPSE
          THEN [nt[i] EXCEPT !.last_status = 255]
          ELSE [nt[i] EXCEPT !.last_status = ns[i].status]]

\* --------------------------------------- analyze_and_compensate_faults()
\* variant: only an online node reading below a floor is taken out of the count
is_working_unless_flagged(nt, ns, i) ==
  ~(/\ nt[i].is_online
    /\ \/ ns[i].input_power < FAULT_MIN_POWER_DETECTION
       \/ ns[i].input_voltage < FAULT_VOLTAGE_COLLAPSE
       \/ ns[i].input_current < FAULT_CURRENT_COLLAPSE)

is_working(nt, ns, i) ==
  /\ nt[i].is_online
  /\ ns[i].input_power > FAULT_MIN_POWER_DETECTION
  /\ ns[i].input_voltage > FAULT_VOLTAGE_COLLAPSE
  /\ ns[i].input_current > FAULT_CURRENT_COLLAPSE

RECURSIVE CountWorking(_, _, _)
CountWorking(i, nt, ns) ==
  IF i > NUM_NODES THEN 0
  ELSE (IF is_working(nt, ns, i) THEN 1 ELSE 0) + CountWorking(i + 1, nt, ns)

\* variant: the safety ceiling is not applied
compensation_voltage_unclamped(num_working) ==
  TARGET_SYSTEM_VOLTAGE \div num_working

compensation_voltage(num_working) ==
  LET v == TARGET_SYSTEM_VOLTAGE \div num_working
  IN IF v > MAX_COMPENSATION_VOLTAGE THEN MAX_COMPENSATION_VOLTAGE ELSE v

\* variant: the new setpoint waits for the next periodic broadcast
analyze_without_broadcast(nt, ns, sp, cmd, es) ==
  LET num_working == CountWorking(1, nt, ns)
      num_faulty == NUM_NODES - num_working
  IN IF num_faulty = 0
     THEN [voltage_setpoint |-> sp, current_command |-> cmd,
           emergency_shutdown |-> es, sent |-> <<>>, pc |-> "idle",
           event |-> "none"]
     ELSE IF num_working >= MIN_NODES_FOR_COMPENSATION
     THEN [voltage_setpoint |-> compensation_voltage(num_working),
           current_command |-> cmd, emergency_shutdown |-> es,
           sent |-> <<>>, pc |-> "idle", event |-> "COMPENSATION"]
     ELSE IF num_working = 1
     THEN [voltage_setpoint |-> TARGET_SYSTEM_VOLTAGE,
           current_command |-> cmd, emergency_shutdown |-> es,
           sent |-> <<>>, pc |-> "idle", event |-> "CRITICAL_ONE_NODE"]
     ELSE emergency_stop(cmd, "CRITICAL_ALL_OFFLINE")

\* variant: one working node is treated like none (shut down)
analyze_one_node_shutdown(nt, ns, sp, cmd, es) ==
  LET num_working == CountWorking(1, nt, ns)
      num_faulty == NUM_NODES - num_working
  IN IF num_faulty = 0
     THEN [voltage_setpoint |-> sp, current_command |-> cmd,
           emergency_shutdown |-> es, sent |-> <<>>, pc |-> "idle",
           event |-> "none"]
     ELSE IF num_working >= MIN_NODES_FOR_COMPENSATION
     THEN LET v == compensation_voltage(num_working)
              c == broadcast_command_to_nodes(cmd, v, es)
          IN [voltage_setpoint |-> v, current_command |-> c,
              emergency_shutdown |-> es, sent |-> <<c>>, pc |-> "idle",
              event |-> "COMPENSATION"]
     ELSE emergency_stop(cmd, "CRITICAL_ALL_OFFLINE")

\* variant: the compensation voltage is broadcast but not kept as setpoint
analyze_keeping_setpoint(nt, ns, sp, cmd, es) ==
  LET num_working == CountWorking(1, nt, ns)
      num_faulty == NUM_NODES - num_working
  IN IF num_faulty = 0
     THEN [voltage_setpoint |-> sp, current_command |-> cmd,
           emergency_shutdown |-> es, sent |-> <<>>, pc |-> "idle",
           event |-> "none"]
     ELSE IF num_working >= MIN_NODES_FOR_COMPENSATION
     THEN LET v == compensation_voltage(num_working)
              c == broadcast_command_to_nodes(cmd, v, es)
          IN [voltage_setpoint |-> sp, current_command |-> c,
              emergency_shutdown |-> es, sent |-> <<c>>, pc |-> "idle",
              event |-> "COMPENSATION"]
     ELSE IF num_working = 1
     THEN [voltage_setpoint |-> TARGET_SYSTEM_VOLTAGE,
           current_command |-> cmd, emergency_shutdown |-> es,
           sent |-> <<>>, pc |-> "idle", event |-> "CRITICAL_ONE_NODE"]
     ELSE emergency_stop(cmd, "CRITICAL_ALL_OFFLINE")

analyze_and_compensate_faults(nt, ns, sp, cmd, es) ==
  LET num_working == CountWorking(1, nt, ns)
      num_faulty == NUM_NODES - num_working
  IN IF num_faulty = 0
     THEN [voltage_setpoint |-> sp, current_command |-> cmd,
           emergency_shutdown |-> es, sent |-> <<>>, pc |-> "idle",
           event |-> "none"]
     ELSE IF num_working >= MIN_NODES_FOR_COMPENSATION
     THEN LET v == compensation_voltage(num_working)
              c == broadcast_command_to_nodes(cmd, v, es)
          IN [voltage_setpoint |-> v, current_command |-> c,
              emergency_shutdown |-> es, sent |-> <<c>>, pc |-> "idle",
              event |-> "COMPENSATION"]
     ELSE IF num_working = 1
     THEN [voltage_setpoint |-> TARGET_SYSTEM_VOLTAGE,
           current_command |-> cmd, emergency_shutdown |-> es,
           sent |-> <<>>, pc |-> "idle", event |-> "CRITICAL_ONE_NODE"]
     ELSE emergency_stop(cmd, "CRITICAL_ALL_OFFLINE")

\* ----------------------------------------------------- on_data_receive()
\* memcpy(&node_status[id], &status, ...)
on_data_receive_store(ns, id, status) == [ns EXCEPT ![id] = status]

\* variant: the reception time is stamped, the online flag is left alone
on_data_receive_stamp_only_time(nt, id, t) ==
  [nt EXCEPT ![id].last_update = t, ![id].consecutive_errors = 0]

\* the three tracker writes that follow the memcpy
on_data_receive_stamp(nt, id, t) ==
  [nt EXCEPT ![id].last_update = t, ![id].is_online = TRUE,
             ![id].consecutive_errors = 0]

\* ================================================================ actions
BroadcastDue == now - last_broadcast_time >= COMMAND_BROADCAST_INTERVAL
ControlDue == now - last_voltage_adjustment_time >= VOLTAGE_RAMP_INTERVAL
CompensationDue == now - last_fault_check_time >= COMPENSATION_CHECK_INTERVAL

\* loop(): the periodic broadcast block
LoopBroadcast ==
  /\ pc = "idle" /\ BroadcastDue
  /\ current_command' =
       broadcast_command_to_nodes(current_command, voltage_setpoint,
                                  emergency_shutdown)
  /\ sent' = <<current_command'>>
  /\ last_broadcast_time' = now
  /\ event' = "none"
  /\ UNCHANGED <<now, node_status, node_tracker, system_state,
                 last_voltage_adjustment_time, last_fault_check_time,
                 has_received_any_status, global_fault_state,
                 voltage_setpoint, emergency_shutdown, pc, rx, msgs>>

\* loop(): control block, calculate_system_state()
Calculate ==
  /\ pc = "idle" /\ ~BroadcastDue /\ ControlDue
  /\ LET r == calculate_system_state(system_state, node_tracker,
                                     node_status, now)
     IN /\ system_state' = r.ss
        /\ node_tracker' = r.nt
  /\ pc' = "opt"
  /\ sent' = <<>> /\ event' = "none"
  /\ UNCHANGED <<now, node_status, current_command, last_broadcast_time,
                 last_voltage_adjustment_time, last_fault_check_time,
                 has_received_any_status, global_fault_state,
                 voltage_setpoint, emergency_shutdown, rx, msgs>>

\* loop(): control block, optimize_voltage_setpoint()
Optimize ==
  /\ pc = "opt"
  /\ voltage_setpoint' =
       optimize_voltage_setpoint(voltage_setpoint, system_state,
                                 node_tracker, node_status)
  /\ pc' = "detect"
  /\ sent' = <<>> /\ event' = "none"
  /\ UNCHANGED <<now, node_status, node_tracker, system_state,
                 current_command, last_broadcast_time,
                 last_voltage_adjustment_time, last_fault_check_time,
                 has_received_any_status, global_fault_state,
                 emergency_shutdown, rx, msgs>>

\* bitwise OR of two fault masks
MaskUnion(a, b) ==
  LET Bit(k) == IF HasBit(a, k) \/ HasBit(b, k) THEN k ELSE 0
  IN Bit(FAULT_NODE_OFFLINE) + Bit(FAULT_OVERVOLTAGE_NODE)
       + Bit(FAULT_OVERCURRENT_SYSTEM) + Bit(FAULT_LOW_EFFICIENCY)
       + Bit(FAULT_VOLTAGE_IMBALANCE) + Bit(FAULT_SHADING_DETECTED)

\* variant: the mask is not cleared first, new bits pile onto the old ones
DetectFaultsAccumulating ==
  /\ pc = "detect"
  /\ global_fault_state' =
       MaskUnion(global_fault_state,
                 detect_faults(system_state, node_tracker, node_status))
  /\ pc' = "handle"
  /\ sent' = <<>> /\ event' = "none"
  /\ UNCHANGED <<now, node_status, node_tracker, system_state,
                 current_command, last_broadcast_time,
                 last_voltage_adjustment_time, last_fault_check_time,
                 has_received_any_status, voltage_setpoint,
                 emergency_shutdown, rx, msgs>>

\* loop(): control block, detect_faults()
DetectFaults ==
  /\ pc = "detect"
  /\ global_fault_state' = detect_faults(system_state, node_tracker, node_status)
  /\ pc' = "handle"
  /\ sent' = <<>> /\ event' = "none"
  /\ UNCHANGED <<now, node_status, node_tracker, system_state,
                 current_command, last_broadcast_time,
                 last_voltage_adjustment_time, last_fault_check_time,
                 has_received_any_status, voltage_setpoint,
                 emergency_shutdown, rx, msgs>>

\* loop(): control block, handle_faults() and the timer update after it
HandleFaults ==
  /\ pc = "handle"
  /\ LET r == handle_faults(global_fault_state, system_state,
                            voltage_setpoint, current_command,
                            emergency_shutdown)
     IN /\ voltage_setpoint' = r.voltage_setpoint
        /\ current_command' = r.current_command
        /\ emergency_shutdown' = r.emergency_shutdown
        /\ sent' = r.sent
        /\ pc' = r.pc
        /\ event' = r.event
        /\ last_voltage_adjustment_time' =
             IF r.pc = "halted" THEN last_voltage_adjustment_time ELSE now
  /\ UNCHANGED <<now, node_status, node_tracker, system_state,
                 last_broadcast_time, last_fault_check_time,
                 has_received_any_status, global_fault_state, rx, msgs>>

\* loop(): the compensation block of the integration guide
CompensationCheck ==
  /\ pc = "idle" /\ ~BroadcastDue /\ ~ControlDue /\ CompensationDue
  /\ LET nt1 == detect_node_failures(node_tracker, node_status)
         r == analyze_and_compensate_faults(nt1, node_status,
                voltage_setpoint, current_command, emergency_shutdown)
     IN /\ node_tracker' = nt1
        /\ voltage_setpoint' = r.voltage_setpoint
        /\ current_command' = r.current_command
        /\ emergency_shutdown' = r.emergency_shutdown
        /\ sent' = r.sent
        /\ pc' = r.pc
        /\ event' = r.event
        /\ last_fault_check_time' =
             IF r.pc = "halted" THEN last_fault_check_time ELSE now
  /\ UNCHANGED <<now, node_status, system_state, last_broadcast_time,
                 last_voltage_adjustment_time, has_received_any_status,
                 global_fault_state, rx, msgs>>

LoopIdle == pc = "idle" /\ ~BroadcastDue /\ ~ControlDue /\ ~CompensationDue

\* loop(): the emergency button is read LOW twice
EmergencyButton ==
  /\ LoopIdle
  /\ LET r == emergency_stop(current_command, "BUTTON")
     IN /\ voltage_setpoint' = r.voltage_setpoint
        /\ current_command' = r.current_command
        /\ emergency_shutdown' = r.emergency_shutdown
        /\ sent' = r.sent
        /\ pc' = r.pc
        /\ event' = r.event
  /\ UNCHANGED <<now, node_status, node_tracker, system_state,
                 last_broadcast_time, last_voltage_adjustment_time,
                 last_fault_check_time, has_received_any_status,
                 global_fault_state, rx, msgs>>

\* on_data_receive(): a well-formed status of node id arrives and is copied
Receive(id, status) ==
  /\ rx = 0
  /\ node_status' = on_data_receive_store(node_status, id, status)
  /\ rx' = id
  /\ msgs' = msgs + 1
  /\ sent' = <<>> /\ event' = "none"
  /\ UNCHANGED <<now, node_tracker, system_state, current_command,
                 last_broadcast_time, last_voltage_adjustment_time,
                 last_fault_check_time, has_received_any_status,
                 global_fault_state, voltage_setpoint, emergency_shutdown,
                 pc>>

RxStore ==
  /\ msgs < MaxMsgs
  /\ \E id \in Nodes : \E status \in StatusMsgs(id) : Receive(id, status)

\* the same reception, every node reporting nominal values only
RxStoreNominal ==
  /\ msgs < MaxRaceMsgs
  /\ \E id \in Nodes : Receive(id, Nominal)

\* on_data_receive(): the tracker entry is stamped and the callback returns
RxStamp ==
  /\ rx # 0
  /\ node_tracker' = on_data_receive_stamp(node_tracker, rx, now)
  /\ has_received_any_status' = TRUE
  /\ rx' = 0
  /\ sent' = <<>> /\ event' = "none"
  /\ UNCHANGED <<now, node_status, system_state, current_command,
                 last_broadcast_time, last_voltage_adjustment_time,
                 last_fault_check_time, global_fault_state,
                 voltage_setpoint, emergency_shutdown, pc, msgs>>

\* millis() advances; loop() polls every 10 ms, so no due task is skipped.
\* Inside emergency_stop's while (1) the only reader of the clock left is the
\* reception stamp, so time is not advanced past that point.
Tick ==
  /\ rx = 0
  /\ LoopIdle
  /\ now + TickMs <= MaxTime
  /\ now' = now + TickMs
  /\ sent' = <<>> /\ event' = "none"
  /\ UNCHANGED <<node_status, node_tracker, system_state, current_command,
                 last_broadcast_time, last_voltage_adjustment_time,
                 last_fault_check_time, has_received_any_status,
                 global_fault_state, voltage_setpoint, emergency_shutdown,
                 pc, rx, msgs>>

Next ==
  \/ LoopBroadcast
  \/ Calculate
  \/ Optimize
  \/ DetectFaults
  \/ HandleFaults
  \/ CompensationCheck
  \/ EmergencyButton
  \/ RxStore
  \/ RxStamp
  \/ Tick

Spec == Init /\ [][Next]_vars

\* the master with more, but only nominal, status traffic and no operator
NextRace ==
  \/ LoopBroadcast
  \/ Calculate
  \/ Optimize
  \/ DetectFaults
  \/ HandleFaults
  \/ CompensationCheck
  \/ RxStoreNominal
  \/ RxStamp
  \/ Tick

SpecRace == Init /\ [][NextRace]_vars

\* ------------------------------------------------------------------------
\* One pass of loop() looked at on its own, some time into operation: every
\* node has reported (its latest status and the stamp of its reception are
\* drawn), the previous pass ran one interval ago on the same table, and the
\* setpoint is one that earlier passes leave behind: the low end of the
\* efficiency descent, the start value, the top of the ramp, the optimizer's
\* ceiling, and the compensation ceiling.
CycleStart == MaxTime
PrevCycle == CycleStart - VOLTAGE_RAMP_INTERVAL

\* reception stamps: right after setup (stale by now), exactly NODE_TIMEOUT
\* ago, and at the previous pass
CycleStamps == {SETUP_DELAY, CycleStart - NODE_TIMEOUT, PrevCycle}

CycleSetpoints ==
  {MIN_SYSTEM_VOLTAGE \div NUM_NODES, TARGET_NODE_VOLTAGE,
   (MAX_SYSTEM_VOLTAGE - 40) \div NUM_NODES,
   MAX_SYSTEM_VOLTAGE \div NUM_NODES, MAX_COMPENSATION_VOLTAGE}

CycleTracker(st) ==
  [i \in Nodes |->
     [last_update |-> st[i], is_online |-> TRUE,
      voltage_setpoint |-> TARGET_NODE_VOLTAGE,
      consecutive_errors |-> 0, last_status |-> 0]]

InitCycle ==
  /\ now = CycleStart
  /\ node_status \in
       {f \in [Nodes -> {Nominal, Lossy, Dusk, Marginal, Shaded, Dead,
                         OverVolt, OverCur}] :
          \A i \in Nodes : f[i] \in CycleMsgs(i)}
  /\ \E st \in [Nodes -> CycleStamps] :
       LET prev == calculate_system_state(InitSystemState, CycleTracker(st),
                                          node_status, PrevCycle)
       IN /\ node_tracker = detect_node_failures(prev.nt, node_status)
          /\ system_state = prev.ss
          /\ global_fault_state = detect_faults(prev.ss, prev.nt, node_status)
  /\ voltage_setpoint \in CycleSetpoints
  /\ current_command = [InitCommand EXCEPT !.target_voltage = voltage_setpoint]
  /\ last_broadcast_time = PrevCycle
  /\ last_voltage_adjustment_time = PrevCycle
  /\ last_fault_check_time = PrevCycle
  /\ has_received_any_status = TRUE
  /\ emergency_shutdown = FALSE
  /\ pc = "idle"
  /\ rx = 0
  /\ msgs = 0
  /\ sent = <<>>
  /\ event = "none"

NextCycle ==
  \/ LoopBroadcast
  \/ Calculate
  \/ Optimize
  \/ DetectFaults
  \/ HandleFaults
  \/ CompensationCheck

SpecCycle == InitCycle /\ [][NextCycle]_vars


\* ============================================================ properties
\* the state print_system_status() reports
MasterState ==
  IF emergency_shutdown THEN "EMERGENCY_SHUTDOWN"
  ELSE IF global_fault_state = FAULT_NONE THEN "NORMAL" ELSE "FAULT"

OptimizerRan == pc = "opt" /\ pc' = "detect"
AggregationRan == pc = "idle" /\ pc' = "opt"
FaultDetectionRan == pc = "detect" /\ pc' = "handle"
FaultHandlingRan == pc = "handle" /\ pc' # "handle"
CompensationRan ==
  /\ pc = "idle" /\ ~BroadcastDue /\ ~ControlDue /\ CompensationDue
  /\ rx' = rx

WorkingNodes ==
  {i \in Nodes : /\ node_tracker[i].is_online
                 /\ node_status[i].input_power > FAULT_MIN_POWER_DETECTION
                 /\ node_status[i].input_voltage > FAULT_VOLTAGE_COLLAPSE
                 /\ node_status[i].input_current > FAULT_CURRENT_COLLAPSE}
Working == Cardinality(WorkingNodes)

OnlineNodes == {i \in Nodes : node_tracker[i].is_online}
OnlineVoltages == {node_status[i].output_voltage : i \in OnlineNodes}
Imbalanced ==
  \E hi \in OnlineVoltages : \E lo \in OnlineVoltages :
     hi - lo > VOLTAGE_BALANCE_TOLERANCE

ShutdownCommand ==
  [node_id |-> BROADCAST_ID, target_voltage |-> 0,
   max_current |-> OVERCURRENT_THRESHOLD, command |-> 1]

RECURSIVE SumOver(_, _)
SumOver(S, f) ==
  IF S = {} THEN 0
  ELSE LET i == CHOOSE j \in S : TRUE IN f[i] + SumOver(S \ {i}, f)

\* C1: after every run of the voltage optimizer the setpoint lies within
\* [MIN_SYSTEM_VOLTAGE/N, MAX_SYSTEM_VOLTAGE/N], whatever it was before.
C1_OptimizerClamps ==
  pc = "detect" =>
     /\ voltage_setpoint * NUM_NODES >= MIN_SYSTEM_VOLTAGE
     /\ voltage_setpoint * NUM_NODES <= MAX_SYSTEM_VOLTAGE

\* C2: once the emergency flag is set it stays set, the setpoint is and
\* stays 0, and the reported state never goes back to NORMAL or FAULT.
C2_EmergencyTerminal ==
  [][emergency_shutdown =>
       /\ voltage_setpoint = 0
       /\ emergency_shutdown'
       /\ voltage_setpoint' = 0
       /\ MasterState' = "EMERGENCY_SHUTDOWN"]_vars

C2_Witness ==
  /\ emergency_shutdown /\ voltage_setpoint = 0
  /\ event = "none" /\ rx = 0
  /\ Cardinality({i \in Nodes : /\ node_tracker[i].is_online
                                /\ node_tracker[i].last_update > 0
                                /\ node_status[i] = Nominal}) >= 3

\* C3: a control cycle whose aggregation counted 0 nodes online, or whose
\* compensation pass counts 0 working nodes, ends in EMERGENCY_SHUTDOWN.
C3_ZeroNodesEmergency ==
  [][(\/ FaultHandlingRan /\ system_state.num_nodes_online = 0
      \/ CompensationRan /\ Working = 0)
     => emergency_shutdown']_vars

\* C4: every entry into EMERGENCY_SHUTDOWN sets the setpoint to 0 and
\* broadcasts {broadcast, 0 V, shutdown} in the same step, and no other
\* command is sent from then on.
C4_EntryBroadcastsShutdown ==
  [][emergency_shutdown' =>
       /\ voltage_setpoint' = 0
       /\ IF emergency_shutdown
          THEN sent' \in {<<>>, <<ShutdownCommand>>}
          ELSE sent' = <<ShutdownCommand>>]_vars

C4_Witness ==
  /\ emergency_shutdown /\ voltage_setpoint = 0
  /\ sent = <<ShutdownCommand>>
  /\ event = "FAULT_ALL_OFFLINE"
  /\ system_state.num_nodes_online = 0

C6_ImbalanceNeverRaises ==
  [][(OptimizerRan /\ Imbalanced) => voltage_setpoint' <= voltage_setpoint]_vars

C6_Witness ==
  /\ pc = "detect" /\ Imbalanced
  /\ system_state.num_nodes_online >= 2
  /\ system_state.system_efficiency >= EFFICIENCY_WARNING
  /\ voltage_setpoint = TARGET_NODE_VOLTAGE - VOLTAGE_RAMP_STEP \div 2

\* C7: a node silent for longer than NODE_TIMEOUT at the time of an
\* aggregation adds nothing to the SystemState that aggregation produces:
\* the totals are those of a set of nodes none of which is stale.
C7_StaleExcluded ==
  [][AggregationRan =>
       LET Stale == {i \in Nodes :
                       now - node_tracker[i].last_update > NODE_TIMEOUT}
       IN /\ \E S \in SUBSET (Nodes \ Stale) :
               /\ system_state'.num_nodes_online = Cardinality(S)
               /\ system_state'.total_input_power =
                    SumOver(S, [i \in Nodes |-> node_status[i].input_power])
               /\ system_state'.total_output_power =
                    SumOver(S, [i \in Nodes |-> node_status[i].output_power])
               /\ system_state'.system_voltage =
                    SumOver(S, [i \in Nodes |-> node_status[i].output_voltage])
               /\ system_state'.num_shaded_nodes =
                    Cardinality({i \in S : node_status[i].status = 1})
               /\ IF S = {} THEN system_state'.total_output_current = 0
                  ELSE \E i \in S : system_state'.total_output_current =
                                      node_status[i].output_current
          /\ \A i \in Stale : ~node_tracker'[i].is_online]_vars

C7_Witness ==
  /\ pc = "opt"
  /\ system_state.num_nodes_online >= 1
  /\ \E i \in Nodes :
       /\ node_tracker[i].last_update > 0
       /\ now - node_tracker[i].last_update > NODE_TIMEOUT
       /\ node_status[i] = Nominal
       /\ ~node_tracker[i].is_online
       /\ system_state.total_input_power =
            Nominal.input_power * system_state.num_nodes_online

\* C8: no function of the control cycle runs while a reception has copied a
\* node's status but not yet stamped its tracker entry, so the cycle never
\* reads a new status together with the old reception stamp.
C8_NoTornRead ==
  [][(AggregationRan \/ OptimizerRan \/ FaultDetectionRan \/ CompensationRan)
     => rx = 0]_vars

\* C9: whenever the compensation pass computes a setpoint for working >= 2,
\* that same step broadcasts one command whose target_voltage is the new
\* setpoint.
C9_ImmediateBroadcast ==
  [][(CompensationRan /\ Working >= 2 /\ Working < NUM_NODES)
     => /\ Len(sent') = 1
        /\ sent'[1].target_voltage = voltage_setpoint'
        /\ sent'[1].node_id = BROADCAST_ID
        /\ sent'[1] = current_command']_vars

C9_Witness ==
  /\ event = "COMPENSATION"
  /\ WorkingNodes = {1, 2, 4}
  /\ node_tracker[3].is_online
  /\ node_status[3].input_power < FAULT_MIN_POWER_DETECTION
  /\ node_status[3].input_voltage < FAULT_VOLTAGE_COLLAPSE
  /\ Len(sent) = 1
  /\ sent[1].target_voltage = 320

CompensationOutcome(working) ==
  IF working = NUM_NODES THEN "none"
  ELSE IF working >= MIN_NODES_FOR_COMPENSATION THEN "COMPENSATION"
  ELSE IF working = 1 THEN "CRITICAL_ONE_NODE"
  ELSE "CRITICAL_ALL_OFFLINE"

C12_EfficiencyRule ==
  [][(/\ OptimizerRan
      /\ system_state.num_nodes_online >= 2
      /\ ~Imbalanced
      /\ system_state.system_efficiency < EFFICIENCY_WARNING)
     => /\ voltage_setpoint' =
             constrain(voltage_setpoint - VOLTAGE_RAMP_STEP,
                       MIN_SYSTEM_VOLTAGE \div NUM_NODES,
                       MAX_SYSTEM_VOLTAGE \div NUM_NODES)
        /\ voltage_setpoint' <= voltage_setpoint]_vars

\* C13: an optimizer run with at least 2 nodes online, no voltage imbalance
\* and efficiency at or above EFFICIENCY_WARNING raises the setpoint by one
\* VOLTAGE_RAMP_STEP, never above MAX_SYSTEM_VOLTAGE/N, when setpoint x N is
\* below MAX_SYSTEM_VOLTAGE, and lowers it by one step (clamped) when
\* setpoint x N exceeds MAX_SYSTEM_VOLTAGE.
C13_RampRule ==
  [][(/\ OptimizerRan
      /\ system_state.num_nodes_online >= 2
      /\ ~Imbalanced
      /\ system_state.system_efficiency >= EFFICIENCY_WARNING)
     => /\ voltage_setpoint * NUM_NODES < MAX_SYSTEM_VOLTAGE
             => voltage_setpoint' =
                  constrain(voltage_setpoint + VOLTAGE_RAMP_STEP,
                            MIN_SYSTEM_VOLTAGE \div NUM_NODES,
                            MAX_SYSTEM_VOLTAGE \div NUM_NODES)
        /\ voltage_setpoint * NUM_NODES > MAX_SYSTEM_VOLTAGE
             => voltage_setpoint' =
                  constrain(voltage_setpoint - VOLTAGE_RAMP_STEP,
                            MIN_SYSTEM_VOLTAGE \div NUM_NODES,
                            MAX_SYSTEM_VOLTAGE \div NUM_NODES)]_vars

\* C14: an optimizer run that finds fewer than 2 nodes online in the
\* aggregated SystemState leaves the setpoint as it was.
C14_GuardHolds ==
  [][(OptimizerRan /\ system_state.num_nodes_online < 2)
     => voltage_setpoint' = voltage_setpoint]_vars

C14_Witness ==
  /\ pc = "detect"
  /\ system_state.num_nodes_online = 1
  /\ system_state.system_efficiency >= EFFICIENCY_WARNING
  /\ voltage_setpoint = TARGET_NODE_VOLTAGE

\* C15: detect_faults sets each of the six fault bits if and only if that
\* bit's own condition holds on the SystemState and tracker entries it reads,
\* whatever the other bits are: NODE_OFFLINE iff some node is offline,
\* OVERVOLTAGE_NODE iff some online node's output voltage is above the
\* per-node ceiling, OVERCURRENT_SYSTEM iff the system current is above the
\* system ceiling, LOW_EFFICIENCY iff efficiency is below the warning
\* threshold and input power is above 10 W, VOLTAGE_IMBALANCE iff the output
\* voltages of the online nodes are more than the tolerance apart,
\* SHADING_DETECTED iff the shaded-node count is positive.
C15_BitsIndependent ==
  [][FaultDetectionRan =>
       /\ HasBit(global_fault_state', FAULT_NODE_OFFLINE)
            <=> (OnlineNodes # Nodes)
       /\ HasBit(global_fault_state', FAULT_OVERVOLTAGE_NODE)
            <=> (\E v \in OnlineVoltages : v > OVERVOLTAGE_THRESHOLD)
       /\ HasBit(global_fault_state', FAULT_OVERCURRENT_SYSTEM)
            <=> (system_state.total_output_current > OVERCURRENT_THRESHOLD)
       /\ HasBit(global_fault_state', FAULT_LOW_EFFICIENCY)
            <=> (/\ system_state.system_efficiency < EFFICIENCY_WARNING
                 /\ system_state.total_input_power > 100)
       /\ HasBit(global_fault_state', FAULT_VOLTAGE_IMBALANCE) <=> Imbalanced
       /\ HasBit(global_fault_state', FAULT_SHADING_DETECTED)
            <=> (system_state.num_shaded_nodes > 0)
       /\ global_fault_state' < 2 * FAULT_SHADING_DETECTED]_vars

C15_Witness ==
  /\ pc = "handle"
  /\ OnlineNodes # Nodes
  /\ \E i \in OnlineNodes : node_status[i] = OverVolt
  /\ \E i \in OnlineNodes : node_status[i] = Shaded
  /\ global_fault_state =
       FAULT_NODE_OFFLINE + FAULT_OVERVOLTAGE_NODE
         + FAULT_VOLTAGE_IMBALANCE + FAULT_SHADING_DETECTED

C18_EfficiencyDefined ==
  LET inp == system_state.total_input_power
      out == system_state.total_output_power
      eff == system_state.system_efficiency
  IN IF inp > 1
     THEN eff * inp <= 100 * out /\ 100 * out < (eff + 1) * inp
     ELSE eff = 0

C18_Witness ==
  /\ pc = "opt"
  /\ system_state.num_nodes_online >= 1
  /\ system_state.total_input_power = 1
  /\ system_state.total_output_power = 1
  /\ system_state.system_efficiency = 0

\* C19: the reception of a well-formed status of node k writes the message
\* into node k's status slot and nothing else, and then stamps node k's
\* tracker entry with the reception time, marks it online and zeroes its
\* consecutive-error counter, leaving the stored message, every other
\* node's status and every other node's tracker entry as they were.
C19_ReceptionEffect ==
  [][/\ (rx = 0 /\ rx' # 0)
          => /\ rx' \in Nodes
             /\ node_status'[rx'] \in StatusMsgs(rx')
             /\ \A j \in Nodes \ {rx'} : node_status'[j] = node_status[j]
             /\ node_tracker' = node_tracker
     /\ (rx # 0 /\ rx' = 0)
          => /\ node_tracker'[rx].last_update = now
             /\ node_tracker'[rx].is_online
             /\ node_tracker'[rx].consecutive_errors = 0
             /\ node_tracker'[rx].voltage_setpoint
                  = node_tracker[rx].voltage_setpoint
             /\ node_tracker'[rx].last_status = node_tracker[rx].last_status
             /\ \A j \in Nodes \ {rx} : node_tracker'[j] = node_tracker[j]
             /\ node_status' = node_status]_vars

\* a node the aggregation had just counted out is back online by reception
C19_Witness ==
  /\ rx = 0 /\ pc = "opt"
  /\ system_state.num_nodes_online = 1
  /\ \E k \in Nodes :
       /\ node_tracker[k].last_update = now
       /\ node_tracker[k].is_online
       /\ node_status[k] \in StatusMsgs(k)
       /\ \E j \in Nodes \ {k} :
            /\ node_tracker[j].is_online
            /\ node_tracker[j].last_update < now
       /\ \E j \in Nodes \ {k} :
            /\ ~node_tracker[j].is_online
            /\ node_tracker[j].last_update = 0
            /\ node_status[j] = ZeroStatus

\* C20: the liveness refresh marks a node offline only if the time since its
\* last update exceeds NODE_TIMEOUT: a node whose silence is less than or
\* equal to NODE_TIMEOUT, exactly equal included, is online after the
\* aggregation and is counted in it.
C20_TimeoutBoundary ==
  [][AggregationRan =>
       LET Within == {i \in Nodes :
                        now - node_tracker[i].last_update <= NODE_TIMEOUT}
       IN /\ \A i \in Within : node_tracker'[i].is_online
          /\ system_state'.num_nodes_online >= Cardinality(Within)]_vars

\* the periodic broadcast block of loop() ran
PeriodicBroadcastRan ==
  pc = "idle" /\ BroadcastDue /\ last_broadcast_time' = now /\ sent' # <<>>

\* C21: a pass of loop() runs aggregate, detect faults, optimize, broadcast
\* in that order: when the optimizer runs, the fault mask is already the one
\* detect_faults() gives for this pass's aggregation, and when the periodic
\* broadcast runs, no control block of the same pass is still to come.
C21_CycleOrder ==
  [][/\ OptimizerRan =>
          global_fault_state =
            detect_faults(system_state, node_tracker, node_status)
     /\ PeriodicBroadcastRan => ~ControlDue]_vars

\* ------------------------------------------------------------------------
\* The master and its radio link.  ESP-NOW hands on_data_receive whatever
\* frame arrived: any length, any claimed node id, in any order, and the
\* status carries the sending node's own clock (timestamp).  The callback
\* runs on the Wi-Fi task while loop() runs calculate_system_state(), and
\* millis() keeps counting inside emergency_stop()'s while (1).
MaxLinkMsgs == 2

\* sizeof(NodeStatus_t): uint8_t, eight floats, uint8_t, uint32_t, aligned
STATUS_SIZE == 44

\* a status frame, and one that lost its last byte
LinkLengths == {STATUS_SIZE - 1, STATUS_SIZE}
\* the node_id byte of the frame: 0, the four nodes, NUM_NODES + 1, 0xFF
LinkIds == (0 .. NUM_NODES + 1) \cup {BROADCAST_ID}
\* the sending node's millis() when it built the status
LinkTimestamps == {TickMs, 2 * TickMs}

\* the status record with NodeStatus_t.timestamp kept
Stamped(status, ts) ==
  [input_voltage |-> status.input_voltage,
   input_current |-> status.input_current,
   input_power |-> status.input_power,
   output_voltage |-> status.output_voltage,
   output_current |-> status.output_current,
   output_power |-> status.output_power,
   status |-> status.status, timestamp |-> ts]

\* variant: the length of the frame is not looked at
accepts_any_length(len, id) == id >= 1 /\ id <= NUM_NODES

\* on_data_receive(): the two tests that guard the memcpy
on_data_receive_accepts(len, id) ==
  len = STATUS_SIZE /\ id >= 1 /\ id <= NUM_NODES

\* what the radio handed over, whatever the callback makes of it
FrameKind(len, id) ==
  IF len # STATUS_SIZE THEN "RX_BAD_LENGTH"
  ELSE IF id \notin Nodes THEN "RX_BAD_ID"
  ELSE "RX_STATUS"

InitLink ==
  /\ now = SETUP_DELAY
  /\ node_status = [i \in Nodes |-> Stamped(ZeroStatus, 0)]
  /\ node_tracker = InitTracker
  /\ system_state = InitSystemState
  /\ current_command = InitCommand
  /\ last_broadcast_time = 0
  /\ last_voltage_adjustment_time = 0
  /\ last_fault_check_time = 0
  /\ has_received_any_status = FALSE
  /\ global_fault_state = FAULT_NONE
  /\ voltage_setpoint = TARGET_NODE_VOLTAGE
  /\ emergency_shutdown = FALSE
  /\ pc = "idle"
  /\ rx = 0
  /\ msgs = 0
  /\ sent = <<>>
  /\ event = "none"

\* on_data_receive(): a frame arrives; it is copied if the tests pass and
\* the callback returns at once if they do not
RxFrame ==
  /\ rx = 0
  /\ msgs < MaxLinkMsgs
  /\ \E len \in LinkLengths : \E id \in LinkIds : \E ts \in LinkTimestamps :
       /\ IF on_data_receive_accepts(len, id)
          THEN /\ node_status' =
                    on_data_receive_store(node_status, id,
                                          Stamped(Nominal, ts))
               /\ rx' = id
          ELSE UNCHANGED <<node_status, rx>>
       /\ event' = FrameKind(len, id)
  /\ msgs' = msgs + 1
  /\ sent' = <<>>
  /\ UNCHANGED <<now, node_tracker, system_state, current_command,
                 last_broadcast_time, last_voltage_adjustment_time,
                 last_fault_check_time, has_received_any_status,
                 global_fault_state, voltage_setpoint, emergency_shutdown,
                 pc>>

\* calculate_system_state() and the tracker writes of on_data_receive()
\* running at the same time for node rx: loop() compares the old last_update
\* with NODE_TIMEOUT and takes the else branch, the callback stamps the entry
\* and sets is_online, and loop()'s is_online = false lands last
CalculateOvertaken ==
  /\ pc = "idle" /\ ~BroadcastDue /\ ControlDue
  /\ rx # 0
  /\ now - node_tracker[rx].last_update >= NODE_TIMEOUT
  /\ LET r == calculate_system_state(system_state, node_tracker,
                                     node_status, now)
     IN /\ system_state' = r.ss
        /\ node_tracker' =
             [on_data_receive_stamp(r.nt, rx, now)
                EXCEPT ![rx].is_online = FALSE]
  /\ has_received_any_status' = TRUE
  /\ rx' = 0
  /\ pc' = "opt"
  /\ sent' = <<>> /\ event' = "none"
  /\ UNCHANGED <<now, node_status, current_command, last_broadcast_time,
                 last_voltage_adjustment_time, last_fault_check_time,
                 global_fault_state, voltage_setpoint, emergency_shutdown,
                 msgs>>

\* millis() inside emergency_stop()'s while (1): loop() never gets the
\* processor back, the clock and the radio go on
TickHalted ==
  /\ pc = "halted"
  /\ rx = 0
  /\ now + TickMs <= MaxTime
  /\ now' = now + TickMs
  /\ sent' = <<>> /\ event' = "none"
  /\ UNCHANGED <<node_status, node_tracker, system_state, current_command,
                 last_broadcast_time, last_voltage_adjustment_time,
                 last_fault_check_time, has_received_any_status,
                 global_fault_state, voltage_setpoint, emergency_shutdown,
                 pc, rx, msgs>>

\* one step of the loop task
LoopStep ==
  \/ LoopBroadcast
  \/ Calculate
  \/ CalculateOvertaken
  \/ Optimize
  \/ DetectFaults
  \/ HandleFaults
  \/ CompensationCheck

NextLink ==
  \/ LoopStep
  \/ RxFrame
  \/ RxStamp
  \/ Tick
  \/ TickHalted

SpecLink == InitLink /\ [][NextLink]_vars

\* the loop task is always scheduled, a started callback returns, and the
\* clock never stops
SpecLinkFair ==
  /\ SpecLink
  /\ WF_vars(LoopStep)
  /\ WF_vars(RxStamp)
  /\ WF_vars(Tick \/ TickHalted)

\* C22: the online flag of a node has one writer at a time: no interleaving
\* of on_data_receive() with calculate_system_state() leaves a node whose
\* status has just been received (callback returned, reception stamp younger
\* than NODE_TIMEOUT) marked offline.
C22_ReceivedStaysOnline ==
  \A i \in Nodes :
     (/\ rx # i
      /\ node_tracker[i].last_update > 0
      /\ now - node_tracker[i].last_update < NODE_TIMEOUT)
       => node_tracker[i].is_online

\* C23: whenever the broadcast interval has elapsed, the periodic broadcast
\* follows, also after the controller has entered EMERGENCY_SHUTDOWN.
C23_BroadcastRecurs == BroadcastDue ~> ~BroadcastDue

\* C24: a frame of the wrong length, or one whose node id is outside
\* 1..NUM_NODES, is dropped: no stored status, no tracker entry, no flag of
\* the master changes and no callback work is left in progress.
C24_InvalidDropped ==
  [][event' \in {"RX_BAD_LENGTH", "RX_BAD_ID"} =>
       /\ node_status' = node_status
       /\ node_tracker' = node_tracker
       /\ has_received_any_status' = has_received_any_status
       /\ system_state' = system_state
       /\ voltage_setpoint' = voltage_setpoint
       /\ rx' = rx]_vars

\* a frame was just dropped by a master that already holds a node's status
C24_Witness ==
  /\ event \in {"RX_BAD_LENGTH", "RX_BAD_ID"}
  /\ has_received_any_status
  /\ \E i \in Nodes : node_status[i] # Stamped(ZeroStatus, 0)

\* C27: a status that arrives late, out of order or twice, carrying an older
\* node timestamp than the stored one, never replaces the stored status:
\* the stored timestamp of a node never goes back.
C27_StaleStatusIgnored ==
  [][\A i \in Nodes :
        node_status'[i].timestamp >= node_status[i].timestamp]_vars

\* ------------------------------------------------------------------------
\* Pass after pass of loop(), one interval apart, while every node keeps
\* reporting.  The code reads millis() only through differences with its
\* timers and reception stamps, so the passing of an interval is written as
\* the timers and stamps falling one interval behind an unchanged now: the
\* reachable states are then finitely many and an endless run shows as a
\* cycle.  Nodes 1..3 start working or with their panel gone, node 4 working
\* or with its output too high; a node whose panel comes back reports
\* nominal values from then on.
MinPassSetpoint == 170

PassMsgs(i) == IF i = NUM_NODES THEN {Nominal, OverVolt} ELSE {Nominal, Dead}

InitPasses ==
  /\ now = CycleStart
  /\ node_status \in
       {f \in [Nodes -> {Nominal, Dead, OverVolt}] :
          \A i \in Nodes : f[i] \in PassMsgs(i)}
  /\ LET st == [i \in Nodes |-> PrevCycle]
         prev == calculate_system_state(InitSystemState, CycleTracker(st),
                                        node_status, PrevCycle)
     IN /\ node_tracker = prev.nt
        /\ system_state = prev.ss
  /\ global_fault_state = FAULT_NONE
  /\ voltage_setpoint = TARGET_NODE_VOLTAGE
  /\ current_command = InitCommand
  /\ last_broadcast_time = PrevCycle
  /\ last_voltage_adjustment_time = PrevCycle
  /\ last_fault_check_time = PrevCycle
  /\ has_received_any_status = TRUE
  /\ emergency_shutdown = FALSE
  /\ pc = "idle"
  /\ rx = 0
  /\ msgs = 0
  /\ sent = <<>>
  /\ event = "none"

\* an interval goes by with nothing due in between: every node has sent its
\* status again (on_data_receive stamps it), and all three timers of loop()
\* have run out
NextInterval ==
  /\ LoopIdle
  /\ rx = 0
  /\ voltage_setpoint > MinPassSetpoint
  /\ node_tracker' =
       [i \in Nodes |->
          on_data_receive_stamp(node_tracker, i, PrevCycle)[i]]
  /\ last_broadcast_time' = now - COMMAND_BROADCAST_INTERVAL
  /\ last_voltage_adjustment_time' = now - VOLTAGE_RAMP_INTERVAL
  /\ last_fault_check_time' = now - COMPENSATION_CHECK_INTERVAL
  /\ sent' = <<>> /\ event' = "none"
  /\ UNCHANGED <<now, node_status, system_state, current_command,
                 has_received_any_status, global_fault_state,
                 voltage_setpoint, emergency_shutdown, pc, rx, msgs>>

\* on_data_receive(): a node that reported a fault reports nominal values
RxRecovered ==
  /\ \E id \in Nodes :
       /\ node_status[id] # Nominal
       /\ Receive(id, Nominal)

\* one step of the loop task, or the wait for the next interval
PassStep ==
  \/ LoopBroadcast
  \/ Calculate
  \/ Optimize
  \/ DetectFaults
  \/ HandleFaults
  \/ CompensationCheck
  \/ NextInterval

NextPasses ==
  \/ PassStep
  \/ RxRecovered
  \/ RxStamp

SpecPasses == InitPasses /\ [][NextPasses]_vars

\* the loop task is always scheduled and a started callback returns
SpecPassesFair ==
  /\ SpecPasses
  /\ WF_vars(PassStep)
  /\ WF_vars(RxStamp)

\* C25: after compensation has raised the setpoint to the compensation
\* voltage and the failed node has recovered, so that all NUM_NODES nodes
\* are online and working, the setpoint eventually returns to
\* TARGET_NODE_VOLTAGE.
C25_RecoveryReturns ==
  (/\ voltage_setpoint = MAX_COMPENSATION_VOLTAGE
   /\ OnlineNodes = Nodes
   /\ \A i \in Nodes : node_status[i] = Nominal)
    ~> (voltage_setpoint = TARGET_NODE_VOLTAGE)

\* C26: when the fault mask of a control cycle has the NODE_OFFLINE bit and
\* at least one node is still online, handle_faults() reduces the setpoint in
\* that cycle and the master goes on; only with every node offline does it
\* escalate to the emergency stop.
C26_OfflineReducesSetpoint ==
  [][(/\ FaultHandlingRan
      /\ HasBit(global_fault_state, FAULT_NODE_OFFLINE)
      /\ system_state.num_nodes_online >= 1)
       => /\ voltage_setpoint' < voltage_setpoint
          /\ ~emergency_shutdown']_vars

\* C28: every command the master broadcasts carries a target voltage of at
\* most MAX_COMPENSATION_VOLTAGE, also when a single node is left working.
C28_BroadcastCeiling ==
  \A k \in 1 .. Len(sent) :
     sent[k].target_voltage <= MAX_COMPENSATION_VOLTAGE

\* C29: a node from which no status has ever been received is never marked
\* online and never counted or summed by the aggregation, the first
\* NODE_TIMEOUT after boot included.
C29_NeverHeardOffline ==
  [][AggregationRan =>
       LET Heard == {i \in Nodes : node_tracker[i].last_update > 0}
       IN /\ \A i \in Nodes \ Heard : ~node_tracker'[i].is_online
          /\ system_state'.num_nodes_online <= Cardinality(Heard)]_vars

\* C30: while the master is not in EMERGENCY_SHUTDOWN, every command it
\* broadcasts carries a target voltage of at least
\* MIN_SYSTEM_VOLTAGE / NUM_NODES.
C30_BroadcastFloor ==
  ~emergency_shutdown =>
     \A k \in 1 .. Len(sent) :
        sent[k].target_voltage >= MIN_SYSTEM_VOLTAGE \div NUM_NODES

\* the setpoint this pass started with: the broadcast block, first in loop()
\* and on the same interval as the control block, has just sent it
CycleStartSetpoint == current_command.target_voltage

\* the pass started with a setpoint the optimizer itself may leave behind,
\* not one set by the compensation pass or pushed down by fault handling
StartedInRange ==
  /\ CycleStartSetpoint >= MIN_SYSTEM_VOLTAGE \div NUM_NODES
  /\ CycleStartSetpoint <= MAX_SYSTEM_VOLTAGE \div NUM_NODES

\* what handle_faults() takes off for the bits of the mask
FaultReduction(mask) ==
  (IF HasBit(mask, FAULT_OVERVOLTAGE_NODE) THEN 2 * VOLTAGE_RAMP_STEP ELSE 0)
    + (IF HasBit(mask, FAULT_OVERCURRENT_SYSTEM) THEN VOLTAGE_RAMP_STEP ELSE 0)

C32_ShutdownIsLast ==
  [][(current_command.command = 1 /\ emergency_shutdown) =>
       \A k \in 1 .. Len(sent') :
          sent'[k].command = 1 /\ sent'[k].target_voltage = 0]_vars

\* the shutdown command went out, a node has reported since and a broadcast
\* interval has run out, and still nothing else was sent
C32_Witness ==
  /\ current_command = ShutdownCommand
  /\ emergency_shutdown
  /\ BroadcastDue
  /\ sent = <<>>
  /\ \E i \in Nodes :
       /\ node_status[i] # Stamped(ZeroStatus, 0)
       /\ node_tracker[i].last_update > last_broadcast_time

\* compensation has acted for the present set of working nodes: the last
\* command sent carries their compensation voltage
Compensated ==
  /\ Working >= MIN_NODES_FOR_COMPENSATION
  /\ Working < NUM_NODES
  /\ ~emergency_shutdown
  /\ current_command.target_voltage = compensation_voltage(Working)

\* C33: while the same nodes stay faulty with two or more working, and the
\* compensation pass runs after the optimizer and fault handling in every
\* pass, every command broadcast after the first compensation, periodic or
\* immediate, carries the compensation voltage: what the optimizer and the
\* fault handler do to the setpoint in between never reaches the nodes
\* (the shutdown command of an emergency stop is not one of these commands).
C33_CompensationPersists ==
  [][(Compensated /\ WorkingNodes' = WorkingNodes /\ ~emergency_shutdown') =>
       \A k \in 1 .. Len(sent') :
          sent'[k].target_voltage = compensation_voltage(Working)]_vars

\* a periodic broadcast has just carried the compensation voltage in a pass
\* after the control block had found the imbalance the faulty node causes
C33_Witness ==
  /\ Compensated
  /\ sent # <<>>
  /\ event = "none"
  /\ last_broadcast_time > last_fault_check_time
  /\ HasBit(global_fault_state, FAULT_VOLTAGE_IMBALANCE)

====
